---------------------------- MODULE Spec2Model ----------------------------
(***************************************************************************)
(* Scoring engine of the rime and verglas predictor (src/src/scoring.py:   *)
(* formation rates and 0-100 risk scores), its configuration               *)
(* (src/config.py), the per-timestamp runner loop of src/main.py, and the  *)
(* weather client (src/src/weather.py): the loops over the locations, the  *)
(* retry loops and the parsing of the provider's responses.                *)
(*                                                                         *)
(* Numbers.  Python floats are modelled as exact rationals [n, d] in       *)
(* lowest terms with d > 0, and round(x, 3) as round-half-to-even on the   *)
(* exact value.  Python rounds the binary float nearest to x, so where the *)
(* exact product is a tie (0.0375, 0.4125, ...) its result may be the      *)
(* other neighbouring multiple of 0.001; away from ties the two agree.     *)
(* No property below depends on which neighbour a tie takes.               *)
(***************************************************************************)
EXTENDS Integers, Sequences, FiniteSets, TLC

VARIABLES
    pc,               \* control position of the operation under way
    args,             \* arguments of the scoring call under evaluation
    ret,              \* value returned by the scoring call
    locations,        \* the dict a loop over locations runs through, in
                      \* dict order (main: historical_data["locations"];
                      \* weather: the `locations` argument)
    loc,              \* index of the location that loop is at
    i,                \* main: index of the sample the inner loop is at
    location_rates,   \* main: records built so far for the location
    timeseries_data,  \* main: timeseries_data["locations"], in dict order
    scoring_globals,  \* module-level objects the scoring functions read
    attempt,          \* weather: `attempt` of the retry loop under way
    network,          \* weather: the requests.get and time.sleep calls made
    data,             \* weather: what _fetch_location_* returned last
    result            \* weather: the dict the fetch function is building

vars ==
    <<pc, args, ret, locations, loc, i, location_rates, timeseries_data,
      scoring_globals, attempt, network, data, result>>

---------------------------------------------------------------------------
(* Exact rational arithmetic standing for Python float arithmetic.         *)

Abs(x) == IF x < 0 THEN -x ELSE x

RECURSIVE GCD(_, _)
GCD(a, b) == IF b = 0 THEN a ELSE GCD(b, a % b)

\* The rational n/d (d # 0) in lowest terms with a positive denominator.
Q(n, d) ==
    LET s == IF d < 0 THEN -1 ELSE 1
        g == GCD(Abs(n), Abs(d))
    IN  [n |-> (s * n) \div g, d |-> (s * d) \div g]

R(x) == [n |-> x, d |-> 1]

RAdd(a, b) == Q(a.n * b.d + b.n * a.d, a.d * b.d)
RSub(a, b) == Q(a.n * b.d - b.n * a.d, a.d * b.d)
RMul(a, b) == Q(a.n * b.n, a.d * b.d)
RDiv(a, b) == Q(a.n * b.d, a.d * b.n)
RLt(a, b) == a.n * b.d < b.n * a.d
RLe(a, b) == a.n * b.d <= b.n * a.d
RGt(a, b) == RLt(b, a)
RGe(a, b) == RLe(b, a)
RMin(a, b) == IF RLt(b, a) THEN b ELSE a
RMax(a, b) == IF RGt(b, a) THEN b ELSE a
RAbs(a) == [n |-> Abs(a.n), d |-> a.d]

\* Python's x % m for m > 0: x - m * floor(x / m), in [0, m).
RMod(a, m) == Q(a.n - m * a.d * (a.n \div (m * a.d)), a.d)

\* Python's round(x, 3): the nearest multiple of 1/1000, ties to even.
Round3(a) ==
    LET num == 1000 * a.n
        f == num \div a.d
        rem == num - f * a.d
        k == IF 2 * rem < a.d THEN f
             ELSE IF 2 * rem > a.d THEN f + 1
             ELSE IF f % 2 = 0 THEN f ELSE f + 1
    IN  Q(k, 1000)

Zero == R(0)
One == R(1)

\* Optional[int]: None, or the value x.
None == [some |-> FALSE, v |-> 0]
Some(x) == [some |-> TRUE, v |-> x]

---------------------------------------------------------------------------
(* src/config.py                                                           *)

RIME_TEMP_OPTIMAL_MIN == -10
RIME_TEMP_OPTIMAL_MAX == -2
RIME_TEMP_VIABLE_MIN == -15
VERGLAS_TEMP_RANGE == 2
\* A configuration slip: the viable maximum taken from the verglas range.
RimeViableMaxFromVerglasRange == VERGLAS_TEMP_RANGE
RIME_TEMP_VIABLE_MAX == 0
RIME_HUMIDITY_THRESHOLD == 85
RIME_WIND_MAX == 25
VERGLAS_LOOKBACK_HOURS == 24
VERGLAS_MELT_TEMP_THRESHOLD == 0
VERGLAS_MIN_LOOKBACK_HOURS == 12
VERGLAS_REFREEZE_TEMP_ZERO == 0
ELEVATION_BASE == 800
ELEVATION_SCALE == 400
VERGLAS_TEMP_CENTER == 0

\* The numeric scoring attributes config.py defines, by name.
config ==
    [RIME_TEMP_OPTIMAL_MIN |-> RIME_TEMP_OPTIMAL_MIN,
     RIME_TEMP_OPTIMAL_MAX |-> RIME_TEMP_OPTIMAL_MAX,
     RIME_TEMP_VIABLE_MIN |-> RIME_TEMP_VIABLE_MIN,
     RIME_TEMP_VIABLE_MAX |-> RIME_TEMP_VIABLE_MAX,
     RIME_HUMIDITY_THRESHOLD |-> RIME_HUMIDITY_THRESHOLD,
     RIME_WIND_MAX |-> RIME_WIND_MAX,
     VERGLAS_TEMP_CENTER |-> VERGLAS_TEMP_CENTER,
     VERGLAS_TEMP_RANGE |-> VERGLAS_TEMP_RANGE,
     VERGLAS_LOOKBACK_HOURS |-> VERGLAS_LOOKBACK_HOURS,
     VERGLAS_MELT_TEMP_THRESHOLD |-> VERGLAS_MELT_TEMP_THRESHOLD,
     VERGLAS_MIN_LOOKBACK_HOURS |-> VERGLAS_MIN_LOOKBACK_HOURS,
     VERGLAS_REFREEZE_TEMP_ZERO |-> VERGLAS_REFREEZE_TEMP_ZERO,
     ELEVATION_BASE |-> ELEVATION_BASE,
     ELEVATION_SCALE |-> ELEVATION_SCALE]

---------------------------------------------------------------------------
(* src/src/scoring.py: the factor curves and the two rate functions.       *)

\* _score_rime_temperature with the lower ramp measured from the wrong end.
ScoreRimeTemperatureRampInverted(temp) ==
    IF RGt(temp, R(RIME_TEMP_VIABLE_MAX)) \/ RLt(temp, R(RIME_TEMP_VIABLE_MIN))
    THEN Zero
    ELSE IF RGt(temp, R(RIME_TEMP_OPTIMAL_MAX))
    THEN LET range_size == R(RIME_TEMP_VIABLE_MAX - RIME_TEMP_OPTIMAL_MAX)
             distance == RSub(temp, R(RIME_TEMP_OPTIMAL_MAX))
         IN  RMul(R(30), RSub(One, RDiv(distance, range_size)))
    ELSE IF RLe(R(RIME_TEMP_OPTIMAL_MIN), temp) /\ RLe(temp, R(RIME_TEMP_OPTIMAL_MAX))
    THEN R(30)
    ELSE LET range_size == R(RIME_TEMP_OPTIMAL_MIN - RIME_TEMP_VIABLE_MIN)
             distance == RSub(temp, R(RIME_TEMP_VIABLE_MIN))
         IN  RMul(R(30), RSub(One, RDiv(distance, range_size)))

\* Score temperature for rime formation (0-30 points).
_score_rime_temperature(temp) ==
    IF RGt(temp, R(RIME_TEMP_VIABLE_MAX)) \/ RLt(temp, R(RIME_TEMP_VIABLE_MIN))
    THEN Zero
    ELSE IF RGt(temp, R(RIME_TEMP_OPTIMAL_MAX))
    THEN LET range_size == R(RIME_TEMP_VIABLE_MAX - RIME_TEMP_OPTIMAL_MAX)
             distance == RSub(temp, R(RIME_TEMP_OPTIMAL_MAX))
         IN  RMul(R(30), RSub(One, RDiv(distance, range_size)))
    ELSE IF RLe(R(RIME_TEMP_OPTIMAL_MIN), temp) /\ RLe(temp, R(RIME_TEMP_OPTIMAL_MAX))
    THEN R(30)
    ELSE LET range_size == R(RIME_TEMP_OPTIMAL_MIN - RIME_TEMP_VIABLE_MIN)
             distance == RSub(R(RIME_TEMP_OPTIMAL_MIN), temp)
         IN  RMul(R(30), RSub(One, RDiv(distance, range_size)))

\* COMPASS_POINTS with its items in the alphabetical order of the names.
CompassPointsAlphabetical ==
    << <<"E", 90>>, <<"N", 0>>, <<"NE", 45>>, <<"NW", 315>>,
       <<"S", 180>>, <<"SE", 135>>, <<"SW", 225>>, <<"W", 270>> >>

\* Compass directions and their degrees, in the order the dict lists them.
COMPASS_POINTS ==
    << <<"N", 0>>, <<"NE", 45>>, <<"E", 90>>, <<"SE", 135>>,
       <<"S", 180>>, <<"SW", 225>>, <<"W", 270>>, <<"NW", 315>> >>

\* d[key] of a dict kept as the sequence of its <<key, value>> items.
Get(d, key) == d[CHOOSE k \in 1..Len(d) : d[k][1] = key][2]
Keys(d) == [k \in 1..Len(d) |-> d[k][1]]

\* The base conditions of calculate_rime_formation_rate: TRUE when the call
\* goes on to compute a rate, FALSE when it returns 0.0 at once.
rime_gates_pass(temperature, humidity) ==
    /\ ~(RGt(temperature, R(RIME_TEMP_VIABLE_MAX))
         \/ RLt(temperature, R(RIME_TEMP_VIABLE_MIN)))
    /\ ~RLt(humidity, R(70))

\* temp_factor * humidity_factor * wind_factor of calculate_rime_formation_rate.
rime_base_rate(temperature, humidity, wind_speed) ==
    LET temp_factor == RDiv(_score_rime_temperature(temperature), R(30))
        humidity_factor == RMin(One, RDiv(RSub(humidity, R(70)), R(30)))
        wind_factor == RMin(One, RDiv(wind_speed, R(15)))
    IN  RMul(RMul(temp_factor, humidity_factor), wind_factor)

\* windward_aspect = (wind_direction + 180) % 360.
windward_aspect(wind_direction) == RMod(RAdd(wind_direction, R(180)), 360)

\* angle_diff = abs(aspect - windward_aspect), and 360 - angle_diff when
\* that is above 180.
angle_diff(aspect, windward) ==
    LET diff == RAbs(RSub(aspect, windward))
    IN  IF RGt(diff, R(180)) THEN RSub(R(360), diff) ELSE diff

\* aspect_factor of calculate_rime_formation_rate.
rime_aspect_factor(wind_direction, aspect) ==
    LET diff == angle_diff(aspect, windward_aspect(wind_direction))
    IN  RAdd(Q(1, 10),
             RMul(Q(9, 10), RMax(Zero, RDiv(RSub(R(90), diff), R(90)))))

\* Rime ice formation rate for a specific aspect.
calculate_rime_formation_rate(temperature, humidity, wind_speed, wind_direction, aspect) ==
    IF ~rime_gates_pass(temperature, humidity)
    THEN Zero
    ELSE LET base_rate == rime_base_rate(temperature, humidity, wind_speed)
             formation_rate ==
                 RMul(base_rate, rime_aspect_factor(wind_direction, aspect))
         IN  Round3(RMin(One, formation_rate))

\* The angle from north taken as the bearing itself, without the fold at
\* 180 degrees.
NorthDiffUnfolded(aspect) == RAbs(aspect)

\* north_diff: the angle between the aspect and north, folded at 180
\* degrees.
north_diff(aspect) ==
    LET abs_aspect == RAbs(aspect)
    IN  IF RGt(abs_aspect, R(180)) THEN RSub(R(360), abs_aspect) ELSE abs_aspect

\* formation_rate of calculate_verglas_formation_rate, before the cap at 1
\* and the rounding, for inputs that pass its two gates.
verglas_formation_rate(temperature, humidity, precipitation, aspect, hour_of_day) ==
    LET temp_distance == RAbs(temperature)
        temp_factor ==
            IF RLe(temp_distance, One) THEN One
            ELSE IF RLe(temp_distance, R(4))
            THEN RDiv(RSub(R(4), temp_distance), R(3))
            ELSE Zero
        moisture_factor ==
            IF RGt(precipitation, Zero)
            THEN RMin(One, RDiv(precipitation, R(3)))
            ELSE RDiv(RSub(humidity, R(85)), R(15))
        aspect_factor ==
            IF RLe(north_diff(aspect), Q(135, 2))
            THEN RSub(One, RDiv(north_diff(aspect), R(135)))
            ELSE Q(3, 10)
        time_factor ==
            IF ~hour_of_day.some THEN One
            ELSE IF 10 <= hour_of_day.v /\ hour_of_day.v <= 15 THEN Q(1, 2)
            ELSE IF \/ (6 <= hour_of_day.v /\ hour_of_day.v <= 9)
                    \/ (16 <= hour_of_day.v /\ hour_of_day.v <= 18)
            THEN Q(3, 4)
            ELSE One
        base_rate == RMul(RMul(temp_factor, moisture_factor), time_factor)
    IN  RMul(base_rate, aspect_factor)

\* calculate_verglas_formation_rate returning the rate without its cap at 1.
VerglasRateUncapped(temperature, humidity, precipitation, aspect, hour_of_day) ==
    IF RGt(temperature, R(4)) \/ RLt(temperature, R(-4))
    THEN Zero
    ELSE IF RLe(precipitation, Zero) /\ RLt(humidity, R(85))
    THEN Zero
    ELSE Round3(verglas_formation_rate(temperature, humidity, precipitation,
                                       aspect, hour_of_day))

\* calculate_verglas_formation_rate without its gate on moisture.
VerglasRateWithoutMoistureGate(temperature, humidity, precipitation, aspect, hour_of_day) ==
    IF RGt(temperature, R(4)) \/ RLt(temperature, R(-4))
    THEN Zero
    ELSE Round3(RMin(One, verglas_formation_rate(temperature, humidity,
                              precipitation, aspect, hour_of_day)))

\* Verglas formation rate for a specific aspect.
calculate_verglas_formation_rate(temperature, humidity, precipitation, aspect, hour_of_day) ==
    IF RGt(temperature, R(4)) \/ RLt(temperature, R(-4))
    THEN Zero
    ELSE IF RLe(precipitation, Zero) /\ RLt(humidity, R(85))
    THEN Zero
    ELSE Round3(RMin(One, verglas_formation_rate(temperature, humidity,
                              precipitation, aspect, hour_of_day)))

\* The loop of calculate_aspect_formation_rates over the items of the
\* module-level table it reads.
aspect_formation_rates_over(points, temperature, humidity, wind_speed, wind_direction, precipitation, hour_of_day) ==
    [rime |->
        [k \in 1..Len(points) |->
            <<points[k][1],
              calculate_rime_formation_rate(temperature, humidity, wind_speed,
                  wind_direction, R(points[k][2]))>>],
     verglas |->
        [k \in 1..Len(points) |->
            <<points[k][1],
              calculate_verglas_formation_rate(temperature, humidity,
                  precipitation, R(points[k][2]), hour_of_day)>>]]

\* Rime and verglas formation rates for all 8 compass points.
calculate_aspect_formation_rates(temperature, humidity, wind_speed, wind_direction, precipitation, hour_of_day) ==
    aspect_formation_rates_over(COMPASS_POINTS, temperature, humidity,
        wind_speed, wind_direction, precipitation, hour_of_day)

\* The module-level objects of scoring.py and config.py as they are once
\* the modules are imported.
ScoringGlobals == [COMPASS_POINTS |-> COMPASS_POINTS, config |-> config]

---------------------------------------------------------------------------
(* Inputs of the scoring calls: grids that hold every breakpoint of the    *)
(* curves, points on each ramp, and out-of-domain values.                  *)

MaxHalfDegrees == 34

Temperatures ==
    {Q(k, 2) : k \in -MaxHalfDegrees..MaxHalfDegrees} \cup {R(-50), R(50)}
Humidities == {R(0), R(69), R(70), R(80), R(85), R(90), R(100), R(150)}
WindSpeeds == {R(-15), R(0), R(6), R(12), R(15), R(25), R(40)}
WindDirections == {R(0), R(45), R(90), R(270), R(-90), R(450)}
Aspects ==
    {R(COMPASS_POINTS[k][2]) : k \in 1..Len(COMPASS_POINTS)}
        \cup {R(-45), R(360), R(720)}
Precipitations == {R(-1), R(0), Q(3, 2), R(3), R(10)}
Hours == {None} \cup {Some(h) : h \in {-1, 0, 6, 9, 10, 15, 16, 18, 19, 24}}

\* The fetcher of weather.py makes no request while something else runs.
FetcherIdle ==
    /\ attempt = 0
    /\ network = << >>
    /\ data = None
    /\ result = << >>

\* The runner of main and the fetcher are idle while a call is evaluated on
\* its own.
RunnerIdle ==
    /\ locations = << >>
    /\ loc = 0
    /\ i = 0
    /\ location_rates = << >>
    /\ timeseries_data = << >>
    /\ FetcherIdle

RunnerUnchanged ==
    UNCHANGED <<locations, loc, i, location_rates, timeseries_data, attempt, network, data, result>>

\* One call of calculate_rime_formation_rate.
InitRime ==
    /\ pc = "call"
    /\ args \in [temperature : Temperatures, humidity : Humidities,
                 wind_speed : WindSpeeds, wind_direction : WindDirections,
                 aspect : Aspects]
    /\ ret = << >>
    /\ RunnerIdle
    /\ scoring_globals = ScoringGlobals

RimeRate ==
    /\ pc = "call"
    /\ ret' = calculate_rime_formation_rate(args.temperature, args.humidity,
                  args.wind_speed, args.wind_direction, args.aspect)
    /\ pc' = "return"
    /\ UNCHANGED args
    /\ RunnerUnchanged
    /\ UNCHANGED scoring_globals

SpecRime == InitRime /\ [][RimeRate]_vars

\* One call of calculate_verglas_formation_rate.
InitVerglas ==
    /\ pc = "call"
    /\ args \in [temperature : Temperatures, humidity : Humidities,
                 precipitation : Precipitations, aspect : Aspects,
                 hour_of_day : Hours]
    /\ ret = << >>
    /\ RunnerIdle
    /\ scoring_globals = ScoringGlobals

VerglasRate ==
    /\ pc = "call"
    /\ ret' = calculate_verglas_formation_rate(args.temperature, args.humidity,
                  args.precipitation, args.aspect, args.hour_of_day)
    /\ pc' = "return"
    /\ UNCHANGED args
    /\ RunnerUnchanged
    /\ UNCHANGED scoring_globals

SpecVerglas == InitVerglas /\ [][VerglasRate]_vars

\* One call of calculate_aspect_formation_rates.
InitAspects ==
    /\ pc = "call"
    /\ args \in [temperature : Temperatures, humidity : Humidities,
                 wind_speed : WindSpeeds, wind_direction : WindDirections,
                 precipitation : {R(0), R(3)},
                 hour_of_day : {None, Some(12)}]
    /\ ret = << >>
    /\ RunnerIdle
    /\ scoring_globals = ScoringGlobals

AspectRates ==
    /\ pc = "call"
    /\ ret' = calculate_aspect_formation_rates(args.temperature, args.humidity,
                  args.wind_speed, args.wind_direction, args.precipitation,
                  args.hour_of_day)
    /\ pc' = "return"
    /\ UNCHANGED args
    /\ RunnerUnchanged
    /\ UNCHANGED scoring_globals

SpecAspects == InitAspects /\ [][AspectRates]_vars

\* Calls of _score_rime_temperature, one per temperature of args, in order.
InitCurve ==
    /\ pc = "call"
    /\ args \in [1..2 -> Temperatures]
    /\ ret = << >>
    /\ RunnerIdle
    /\ scoring_globals = ScoringGlobals

ScoreRimeTemperature ==
    /\ pc = "call"
    /\ ret' = Append(ret, _score_rime_temperature(args[Len(ret) + 1]))
    /\ pc' = IF Len(ret') = Len(args) THEN "return" ELSE "call"
    /\ UNCHANGED args
    /\ RunnerUnchanged
    /\ UNCHANGED scoring_globals

SpecCurve == InitCurve /\ [][ScoreRimeTemperature]_vars

---------------------------------------------------------------------------
(* src/main.py: the loop that turns each location's weather series into    *)
(* one record per sample.  Strings the code takes apart (the timestamps)   *)
(* are sequences of one-character strings.                                 *)

MaxLocations == 2
MaxSeries == 2

DIGITS == <<"0", "1", "2", "3", "4", "5", "6", "7", "8", "9">>

\* str.split(sep) for a one-character separator: the pieces between its
\* occurrences, empty pieces kept.
RECURSIVE Split(_, _)
Split(s, sep) ==
    IF \A k \in 1..Len(s) : s[k] # sep
    THEN <<s>>
    ELSE LET at == CHOOSE k \in 1..Len(s) :
                       s[k] = sep /\ \A j \in 1..(k - 1) : s[j] # sep
         IN  <<SubSeq(s, 1, at - 1)>> \o Split(SubSeq(s, at + 1, Len(s)), sep)

DigitValue(c) == (CHOOSE k \in 1..Len(DIGITS) : DIGITS[k] = c) - 1
IsDigit(c) == \E k \in 1..Len(DIGITS) : DIGITS[k] = c

\* Whether int(s) succeeds: an optional sign and then digits only.
IsIntLiteral(s) ==
    LET body == IF Len(s) > 0 /\ s[1] \in {"-", "+"} THEN Tail(s) ELSE s
    IN  Len(body) > 0 /\ \A k \in 1..Len(body) : IsDigit(body[k])

RECURSIVE DigitsValue(_)
DigitsValue(s) ==
    IF s = << >> THEN 0
    ELSE 10 * DigitsValue(SubSeq(s, 1, Len(s) - 1)) + DigitValue(s[Len(s)])

\* int(s) for a string int() accepts.
IntOf(s) ==
    IF s[1] = "-" THEN -DigitsValue(Tail(s))
    ELSE IF s[1] = "+" THEN DigitsValue(Tail(s))
    ELSE DigitsValue(s)

\* The hour main parses from a sample's timestamp:
\* int(timestamp.split("T")[1].split(":")[0]), and 12 when that raises
\* IndexError or ValueError.
hour(timestamp) ==
    LET parts == Split(timestamp, "T")
    IN  IF Len(parts) < 2 THEN 12
        ELSE LET field == Split(parts[2], ":")[1]
             IN  IF IsIntLiteral(field) THEN IntOf(field) ELSE 12

\* The record main builds for one sample: the rates of all aspects with the
\* sample added under "weather".
rates(weather) ==
    LET r == calculate_aspect_formation_rates(weather.temperature,
                 weather.humidity, weather.wind_speed, weather.wind_direction,
                 weather.precipitation, Some(hour(weather.timestamp)))
    IN  [rime |-> r.rime, verglas |-> r.verglas, weather |-> weather]

\* The `times` the provider returns for an hourly request resampled every
\* interval_hours = 3 hours, starting at midnight: the k-th is
\* "2024-01-DDTHH:00".
TimestampAt(k) ==
    LET h == (3 * (k - 1)) % 24
        day == 15 + (3 * (k - 1)) \div 24
    IN  <<"2", "0", "2", "4", "-", "0", "1", "-",
          DIGITS[(day \div 10) + 1], DIGITS[(day % 10) + 1], "T",
          DIGITS[(h \div 10) + 1], DIGITS[(h % 10) + 1], ":", "0", "0">>

\* Readings a sample may hold: just above freezing in rain, and below
\* freezing in light rain and a strong north wind.
Readings ==
    { [temperature |-> R(1), humidity |-> R(95), wind_speed |-> R(5),
       wind_direction |-> R(180), precipitation |-> R(3), cloud_cover |-> R(100)],
      [temperature |-> R(-2), humidity |-> R(95), wind_speed |-> R(20),
       wind_direction |-> R(0), precipitation |-> Q(3, 2), cloud_cover |-> R(40)] }

Sample(reading, k) ==
    [temperature |-> reading.temperature, humidity |-> reading.humidity,
     wind_speed |-> reading.wind_speed, wind_direction |-> reading.wind_direction,
     precipitation |-> reading.precipitation, cloud_cover |-> reading.cloud_cover,
     timestamp |-> TimestampAt(k)]

\* Every weather series of at most MaxSeries samples.
Series ==
    UNION { { [k \in 1..n |-> Sample(f[k], k)] : f \in [1..n -> Readings] } :
            n \in 0..MaxSeries }

\* config.FOCUS_AREAS: the names in dict order, and their altitudes.
FOCUS_AREAS ==
    << <<"Carn Etchachan", 1120>>, <<"Ben Nevis", 1150>>,
       <<"Creag Meagaidh", 850>>, <<"Lochnagar", 1000>>,
       <<"Beinn Eighe", 850>> >>

\* historical_data["locations"] when main reaches its loop: the first
\* locations of FOCUS_AREAS, each with its altitude and its series.
InitRunner ==
    /\ pc = "for_location"
    /\ \E n \in 1..MaxLocations :
         \E series \in [1..n -> Series] :
           locations = [k \in 1..n |->
                          [name |-> FOCUS_AREAS[k][1],
                           altitude |-> FOCUS_AREAS[k][2],
                           data |-> series[k]]]
    /\ loc = 0
    /\ i = 0
    /\ location_rates = << >>
    /\ timeseries_data = << >>
    /\ args = << >>
    /\ ret = << >>
    /\ scoring_globals = ScoringGlobals
    /\ FetcherIdle

weather_series == locations[loc].data

\* for name, loc_data in historical_data["locations"].items(): the next
\* location is taken and its list of records starts empty.
ForLocation ==
    /\ pc = "for_location"
    /\ loc < Len(locations)
    /\ loc' = loc + 1
    /\ i' = 0
    /\ location_rates' = << >>
    /\ pc' = "for_sample"
    /\ UNCHANGED <<locations, timeseries_data, args, ret, scoring_globals, attempt, network, data, result>>

\* The body with the records appended in front instead of behind.
ForSamplePrepends ==
    /\ pc = "for_sample"
    /\ i < Len(weather_series)
    /\ location_rates' = <<rates(weather_series[i + 1])>> \o location_rates
    /\ i' = i + 1
    /\ UNCHANGED <<pc, locations, loc, timeseries_data, args, ret, scoring_globals, attempt, network, data, result>>

\* for i, weather in enumerate(weather_series): one record is built from
\* the sample at index i and appended.
ForSample ==
    /\ pc = "for_sample"
    /\ i < Len(weather_series)
    /\ location_rates' = Append(location_rates, rates(weather_series[i + 1]))
    /\ i' = i + 1
    /\ UNCHANGED <<pc, locations, loc, timeseries_data, args, ret, scoring_globals, attempt, network, data, result>>

\* The series is exhausted: the location's records are stored under its name.
StoreLocation ==
    /\ pc = "for_sample"
    /\ i = Len(weather_series)
    /\ timeseries_data' =
           Append(timeseries_data,
                  <<locations[loc].name,
                    [altitude |-> locations[loc].altitude,
                     rates |-> location_rates]>>)
    /\ pc' = "for_location"
    /\ UNCHANGED <<locations, loc, i, location_rates, args, ret, scoring_globals, attempt, network, data, result>>

\* Every location is done: main goes on to print its summary.
LoopEnd ==
    /\ pc = "for_location"
    /\ loc = Len(locations)
    /\ pc' = "summary"
    /\ UNCHANGED <<locations, loc, i, location_rates, timeseries_data, args, ret, scoring_globals, attempt, network, data, result>>

NextRunner == ForLocation \/ ForSample \/ StoreLocation \/ LoopEnd

SpecRunner == InitRunner /\ [][NextRunner]_vars

---------------------------------------------------------------------------
(* Properties of calculate_rime_formation_rate (SpecRime, SpecAspects).    *)

\* The temperature is inside the viable range the specification names.
ViableTemperature(t) == RLe(R(-15), t) /\ RLe(t, R(0))

\* C1: for every temperature strictly below -15 or strictly above 0,
\* calculate_rime_formation_rate returns exactly 0 for every humidity,
\* wind_speed, wind_direction and aspect.
C1_RimeZeroOutsideViableTemperature ==
    (pc = "return" /\ ~ViableTemperature(args.temperature)) => ret = Zero

\* A call half a degree above the viable range, with humidity, wind and
\* aspect as favourable as they get, has returned 0.
C1_Witness ==
    /\ pc = "return"
    /\ args = [temperature |-> Q(1, 2), humidity |-> R(100),
               wind_speed |-> R(15), wind_direction |-> R(270),
               aspect |-> R(90)]
    /\ ret = Zero

\* C2: for every humidity below the configured threshold
\* RIME_HUMIDITY_THRESHOLD = 85 %, calculate_rime_formation_rate returns
\* exactly 0 whatever the other inputs are.
C2_RimeZeroBelowHumidityThreshold ==
    (pc = "return" /\ RLt(args.humidity, R(RIME_HUMIDITY_THRESHOLD)))
        => ret = Zero

\* The angular difference of two bearings as the specification defines it:
\* d = |a - b| mod 360, and 360 - d when d > 180.
AngularDifference(a, b) ==
    LET d == RMod(RAbs(RSub(a, b)), 360)
    IN  IF RGt(d, R(180)) THEN RSub(R(360), d) ELSE d

\* C3: for weather that passes the gates, the aspect equal to
\* wind_direction has aspect_factor 1.0 and the highest rate of all
\* aspects, every aspect 90 degrees or more away from wind_direction has
\* the floor factor 0.1, and for temperature -6, humidity 90, wind_speed 12,
\* wind_direction 270 the rate of aspect W is greater than that of aspect E.
C3_RimeFastestFacingTheWind ==
    (/\ pc = "return"
     /\ ViableTemperature(args.temperature)
     /\ RGe(args.humidity, R(RIME_HUMIDITY_THRESHOLD)))
    => /\ \A k \in 1..Len(COMPASS_POINTS) :
            LET aspect == R(COMPASS_POINTS[k][2])
            IN  /\ aspect = args.wind_direction
                     => /\ rime_aspect_factor(args.wind_direction, aspect) = One
                        /\ \A j \in 1..Len(COMPASS_POINTS) :
                               RGe(ret.rime[k][2], ret.rime[j][2])
                /\ RGe(AngularDifference(aspect, args.wind_direction), R(90))
                     => rime_aspect_factor(args.wind_direction, aspect) = Q(1, 10)
       /\ (/\ args.temperature = R(-6)
           /\ args.humidity = R(90)
           /\ args.wind_speed = R(12)
           /\ args.wind_direction = R(270))
          => RGt(Get(ret.rime, "W"), Get(ret.rime, "E"))

\* C4: for inputs that pass the gates, calculate_rime_formation_rate equals
\* round(min(1, temp_factor * humidity_factor * wind_factor * aspect_factor), 3)
\* with humidity_factor = (humidity - 85) / (100 - 85) and
\* wind_factor = min(1, wind_speed / 25).
C4_RimeRateReferenceFormula ==
    (/\ pc = "return"
     /\ ViableTemperature(args.temperature)
     /\ RGe(args.humidity, R(RIME_HUMIDITY_THRESHOLD)))
    => LET temp_factor == RDiv(_score_rime_temperature(args.temperature), R(30))
           humidity_factor ==
               RDiv(RSub(args.humidity, R(RIME_HUMIDITY_THRESHOLD)),
                    R(100 - RIME_HUMIDITY_THRESHOLD))
           wind_factor == RMin(One, RDiv(args.wind_speed, R(RIME_WIND_MAX)))
           aspect_factor == rime_aspect_factor(args.wind_direction, args.aspect)
       IN  ret = Round3(RMin(One,
                 RMul(RMul(RMul(temp_factor, humidity_factor), wind_factor),
                      aspect_factor)))

\* C5: for every numeric input, out-of-domain values included, the value
\* calculate_rime_formation_rate returns lies in [0, 1].
C5_RimeRateInUnitInterval ==
    pc = "return" => RLe(Zero, ret) /\ RLe(ret, One)

---------------------------------------------------------------------------
(* Properties of calculate_verglas_formation_rate (SpecVerglas).           *)

\* C6: for every numeric input, out-of-domain values included (humidity
\* above 100, negative precipitation, aspect outside 0..360, hour outside
\* 0..23), the value calculate_verglas_formation_rate returns lies in [0, 1].
C6_VerglasRateInUnitInterval ==
    pc = "return" => RLe(Zero, ret) /\ RLe(ret, One)

\* A call at 0 degrees with humidity 150 %, no precipitation and aspect 720,
\* whose uncapped product is above 1, has returned exactly 1.
C6_Witness ==
    /\ pc = "return"
    /\ args = [temperature |-> R(0), humidity |-> R(150),
               precipitation |-> R(-1), aspect |-> R(720),
               hour_of_day |-> Some(24)]
    /\ RGt(verglas_formation_rate(args.temperature, args.humidity,
               args.precipitation, args.aspect, args.hour_of_day), One)
    /\ ret = One

---------------------------------------------------------------------------
(* Properties of the rime temperature curve (SpecCurve).                   *)

---------------------------------------------------------------------------
(* Properties of the runner loop of main (SpecRunner).                     *)

\* The verglas rates of a record are 0 on every aspect.
NoVerglas(record) ==
    \A k \in 1..Len(record.verglas) : record.verglas[k][2] = Zero

\* The samples before index k (1-based) of a series that the trailing
\* lookback window of VERGLAS_LOOKBACK_HOURS samples holds.
History(series, k) ==
    {series[j] : j \in {j \in 1..(k - 1) : j >= k - VERGLAS_LOOKBACK_HOURS}}

\* C8: the verglas rate is 0 whenever the current temperature is at or
\* above VERGLAS_REFREEZE_TEMP_ZERO = 0, and 0 whenever no sample of the
\* trailing history has a temperature above the melt threshold.
C8_VerglasZeroWithoutRefreezeOrMelt ==
    pc = "for_sample" =>
      \A k \in 1..Len(location_rates) :
          (\/ RGe(weather_series[k].temperature, R(VERGLAS_REFREEZE_TEMP_ZERO))
           \/ \A h \in History(weather_series, k) :
                  ~RGt(h.temperature, R(VERGLAS_MELT_TEMP_THRESHOLD)))
          => NoVerglas(location_rates[k])

\* C9: the record of a sample that fewer than VERGLAS_MIN_LOOKBACK_HOURS
\* samples precede has verglas rate 0.
C9_VerglasZeroOnShortHistory ==
    pc = "for_sample" =>
      \A k \in 1..Len(location_rates) :
          k - 1 < VERGLAS_MIN_LOOKBACK_HOURS => NoVerglas(location_rates[k])

\* The record main is to build from the k-th sample of a series: the rates
\* of that sample at the hour of its timestamp, and the sample itself.
ExpectedRates ==
    [reading \in Readings, h \in {3 * j : j \in 0..7} |->
        calculate_aspect_formation_rates(reading.temperature, reading.humidity,
            reading.wind_speed, reading.wind_direction, reading.precipitation,
            Some(h))]

ReadingOf(sample) ==
    [temperature |-> sample.temperature, humidity |-> sample.humidity,
     wind_speed |-> sample.wind_speed, wind_direction |-> sample.wind_direction,
     precipitation |-> sample.precipitation, cloud_cover |-> sample.cloud_cover]

RecordOf(series, k) ==
    LET r == ExpectedRates[ReadingOf(series[k]), (3 * (k - 1)) % 24]
    IN  [rime |-> r.rime, verglas |-> r.verglas, weather |-> series[k]]

\* C10: for every location the loop emits exactly one record per sample in
\* input order: while it runs the records are those of the samples before
\* index i, and the list stored for a location is as long as its series and
\* its k-th record carries the k-th sample and the rates of that sample.
C10_OneRecordPerSampleInOrder ==
    /\ pc = "for_sample" =>
         /\ Len(location_rates) = i
         /\ \A k \in 1..i : location_rates[k] = RecordOf(weather_series, k)
    /\ Len(timeseries_data) <= Len(locations)
    /\ pc = "summary" => Len(timeseries_data) = Len(locations)
    /\ \A m \in 1..Len(timeseries_data) :
         /\ timeseries_data[m][1] = locations[m].name
         /\ Len(timeseries_data[m][2].rates) = Len(locations[m].data)
         /\ \A k \in 1..Len(locations[m].data) :
                timeseries_data[m][2].rates[k] = RecordOf(locations[m].data, k)

\* The loop is over for two locations, and the first one's two samples,
\* which differ, have their two records stored.
C10_Witness ==
    /\ pc = "summary"
    /\ Len(timeseries_data) = 2
    /\ Len(timeseries_data[1][2].rates) = 2
    /\ timeseries_data[1][2].rates[1].weather.temperature = R(1)
    /\ timeseries_data[1][2].rates[2].weather.temperature = R(-2)

---------------------------------------------------------------------------
(* src/src/scoring.py: the 0-100 risk view.                                *)

\* _get_risk_level with its thresholds taken as exclusive bounds.
GetRiskLevelExclusive(score) ==
    IF RGt(score, R(75)) THEN "extreme"
    ELSE IF RGt(score, R(50)) THEN "high"
    ELSE IF RGt(score, R(25)) THEN "moderate"
    ELSE "low"

\* Convert numeric score to risk level string.
_get_risk_level(score) ==
    IF RGe(score, R(75)) THEN "extreme"
    ELSE IF RGe(score, R(50)) THEN "high"
    ELSE IF RGe(score, R(25)) THEN "moderate"
    ELSE "low"

\* Scores in quarter points from -10 to MaxScore: every threshold, its
\* neighbours on both sides, and values outside 0..100.
MaxScore == 110
Scores == {Q(k, 4) : k \in -40..(4 * MaxScore)}

\* One call of _get_risk_level.
InitLevel ==
    /\ pc = "call"
    /\ args \in Scores
    /\ ret = << >>
    /\ RunnerIdle
    /\ scoring_globals = ScoringGlobals

GetRiskLevel ==
    /\ pc = "call"
    /\ ret' = _get_risk_level(args)
    /\ pc' = "return"
    /\ UNCHANGED args
    /\ RunnerUnchanged
    /\ UNCHANGED scoring_globals

SpecLevel == InitLevel /\ [][GetRiskLevel]_vars

\* C11: _get_risk_level maps every score to exactly one level with
\* inclusive lower bounds: "extreme" iff score >= 75, "high" iff
\* 50 <= score < 75, "moderate" iff 25 <= score < 50, "low" iff score < 25.
C11_RiskLevelThresholds ==
    pc = "return" =>
      /\ ret \in {"extreme", "high", "moderate", "low"}
      /\ ret = "extreme" <=> RGe(args, R(75))
      /\ ret = "high" <=> (RGe(args, R(50)) /\ RLt(args, R(75)))
      /\ ret = "moderate" <=> (RGe(args, R(25)) /\ RLt(args, R(50)))
      /\ ret = "low" <=> RLt(args, R(25))

\* The three thresholds themselves have been mapped: this call, at exactly
\* 50, has returned "high".
C11_Witness ==
    /\ pc = "return"
    /\ args = R(50)
    /\ ret = "high"

\* Python's round(x, 1): the nearest multiple of 1/10, ties to even.
Round1(a) ==
    LET num == 10 * a.n
        f == num \div a.d
        rem == num - f * a.d
        k == IF 2 * rem < a.d THEN f
             ELSE IF 2 * rem > a.d THEN f + 1
             ELSE IF f % 2 = 0 THEN f ELSE f + 1
    IN  Q(k, 10)

\* get_combined_risk naming rime the primary hazard on equal scores too.
GetCombinedRiskTiesToRime(rime_risk, verglas_risk) ==
    LET max_score == RMax(rime_risk.score, verglas_risk.score)
    IN  [overall_score |-> Round1(max_score),
         overall_level |-> _get_risk_level(max_score),
         rime |-> rime_risk,
         verglas |-> verglas_risk,
         primary_hazard |->
             IF RGe(rime_risk.score, verglas_risk.score)
             THEN "rime" ELSE "verglas"]

\* Combine rime and verglas risks into overall assessment.
get_combined_risk(rime_risk, verglas_risk) ==
    LET max_score == RMax(rime_risk.score, verglas_risk.score)
    IN  [overall_score |-> Round1(max_score),
         overall_level |-> _get_risk_level(max_score),
         rime |-> rime_risk,
         verglas |-> verglas_risk,
         primary_hazard |->
             IF RGt(rime_risk.score, verglas_risk.score)
             THEN "rime" ELSE "verglas"]

\* Risk results as calculate_rime_risk and calculate_verglas_risk return
\* them: a score rounded to one decimal, a level and the factors.  The
\* level is computed from the score before rounding, so it need not be the
\* level of the rounded score.
RiskScores ==
    {R(0), Q(249, 10), R(25), Q(499, 10), R(50), Q(501, 10), Q(749, 10),
     R(75), Q(751, 10), R(100)}
RiskLevels == {"extreme", "high", "moderate", "low"}
RiskResults(factors) ==
    [score : RiskScores, level : RiskLevels, factors : {factors}]

\* One call of get_combined_risk.
InitCombined ==
    /\ pc = "call"
    /\ args \in [rime_risk : RiskResults(<<"temperature", "humidity", "wind", "elevation", "aspect">>),
                 verglas_risk : RiskResults(<<"temperature", "precipitation", "humidity", "aspect", "time">>)]
    /\ ret = << >>
    /\ RunnerIdle
    /\ scoring_globals = ScoringGlobals

GetCombinedRisk ==
    /\ pc = "call"
    /\ ret' = get_combined_risk(args.rime_risk, args.verglas_risk)
    /\ pc' = "return"
    /\ UNCHANGED args
    /\ RunnerUnchanged
    /\ UNCHANGED scoring_globals

SpecCombined == InitCombined /\ [][GetCombinedRisk]_vars

---------------------------------------------------------------------------
(* calculate_rime_risk.  A call either returns a value or ends in an       *)
(* exception: Ok(v) and Raise(e) are the two outcomes.                     *)

Ok(v) == [raised |-> "", value |-> v]
Raise(e) == [raised |-> e, value |-> << >>]

\* config.<name>: the attribute's value, or AttributeError when the module
\* has no attribute of that name.
getattr(module, name) ==
    IF name \in DOMAIN module THEN Ok(module[name]) ELSE Raise("AttributeError")

\* Optional[float]: None.
NoneFloat == [some |-> FALSE, v |-> Zero]

\* Score humidity (0-25 points).
_score_humidity(humidity) ==
    IF RGe(humidity, R(RIME_HUMIDITY_THRESHOLD)) THEN R(25)
    ELSE RMax(Zero, RMul(RDiv(humidity, R(RIME_HUMIDITY_THRESHOLD)), R(25)))

\* Score wind for rime formation (0-20 points).
_score_rime_wind(wind_speed) ==
    LET RIME_WIND_MIN == getattr(config, "RIME_WIND_MIN")
    IN  IF RIME_WIND_MIN.raised # "" THEN RIME_WIND_MIN
        ELSE IF RLt(wind_speed, R(RIME_WIND_MIN.value))
        THEN Ok(RMul(RDiv(wind_speed, R(RIME_WIND_MIN.value)), R(10)))
        ELSE LET excess_wind ==
                     RMin(RSub(wind_speed, R(RIME_WIND_MIN.value)), R(15))
             IN  Ok(RAdd(R(10), RMul(RDiv(excess_wind, R(15)), R(10))))

\* Score elevation factor (0-15 points).
_score_elevation(elevation) ==
    IF RLt(elevation, R(ELEVATION_BASE)) THEN Zero
    ELSE LET elevation_above == RSub(elevation, R(ELEVATION_BASE))
             score == RMul(RDiv(elevation_above, R(ELEVATION_SCALE)), R(10))
         IN  RMin(R(15), score)

\* Score aspect relative to wind direction (0-10 points).
_score_windward_aspect(aspect, wind_direction) ==
    LET diff == angle_diff(aspect, windward_aspect(wind_direction))
    IN  RMax(Zero, RMul(R(10), RSub(One, RDiv(diff, R(90)))))

\* Rime ice formation risk: the dict with "score", "level" and "factors",
\* or the exception the call ends in.
calculate_rime_risk(temperature, humidity, wind_speed, wind_direction, elevation, aspect) ==
    LET wind == _score_rime_wind(wind_speed)
    IN  IF wind.raised # "" THEN wind
        ELSE LET factors ==
                     [temperature |-> _score_rime_temperature(temperature),
                      humidity |-> _score_humidity(humidity),
                      wind |-> wind.value,
                      elevation |-> IF elevation.some
                                    THEN _score_elevation(elevation.v)
                                    ELSE Q(15, 2),
                      aspect |-> IF aspect.some
                                 THEN _score_windward_aspect(aspect.v, wind_direction)
                                 ELSE R(5)]
                 sum == RAdd(RAdd(RAdd(RAdd(factors.temperature,
                            factors.humidity), factors.wind),
                            factors.elevation), factors.aspect)
                 total_score == RMax(Zero, RMin(R(100), sum))
             IN  Ok([score |-> Round1(total_score),
                     level |-> _get_risk_level(total_score),
                     factors |-> factors])

Elevations == {NoneFloat, Some(R(-100)), Some(R(500)), Some(R(1000)), Some(R(2000))}
OptionalAspects == {NoneFloat, Some(R(0)), Some(R(90)), Some(R(270)), Some(R(720))}

\* One call of calculate_rime_risk.
InitRimeRisk ==
    /\ pc = "call"
    /\ args \in [temperature : {R(-50), R(-12), R(-6), R(-1), R(5)},
                 humidity : Humidities, wind_speed : WindSpeeds,
                 wind_direction : WindDirections,
                 elevation : Elevations, aspect : OptionalAspects]
    /\ ret = << >>
    /\ RunnerIdle
    /\ scoring_globals = ScoringGlobals

RimeRisk ==
    /\ pc = "call"
    /\ ret' = calculate_rime_risk(args.temperature, args.humidity,
                  args.wind_speed, args.wind_direction, args.elevation,
                  args.aspect)
    /\ pc' = "return"
    /\ UNCHANGED args
    /\ RunnerUnchanged
    /\ UNCHANGED scoring_globals

SpecRimeRisk == InitRimeRisk /\ [][RimeRisk]_vars

\* C13: for every numeric input to calculate_rime_risk, with elevation and
\* aspect supplied or omitted, each sub-score of "factors" stays within its
\* budget (0 <= temperature <= 30, humidity <= 25, wind <= 20,
\* elevation <= 15, aspect <= 10) and the returned score is in [0, 100].
C13_RimeRiskFactorsWithinBudget ==
    pc = "return" =>
      /\ ret.raised = ""
      /\ RLe(Zero, ret.value.factors.temperature)
      /\ RLe(ret.value.factors.temperature, R(30))
      /\ RLe(ret.value.factors.humidity, R(25))
      /\ RLe(ret.value.factors.wind, R(20))
      /\ RLe(ret.value.factors.elevation, R(15))
      /\ RLe(ret.value.factors.aspect, R(10))
      /\ RLe(Zero, ret.value.score)
      /\ RLe(ret.value.score, R(100))

\* C14: every scoring entry point returns a well-formed result and never
\* ends in an error for any numeric input; here, calculate_rime_risk.
C14_ScoringNeverRaises ==
    pc = "return" => ret.raised \notin {"AttributeError", "TypeError", "ValueError", "ZeroDivisionError", "KeyError"}

---------------------------------------------------------------------------
(* The rate functions called with fields that may be None.  Python raises  *)
(* TypeError when None is compared with, or combined in arithmetic with, a *)
(* number; an argument the call returns before using is never looked at.   *)

\* calculate_rime_formation_rate on Optional[float] arguments.
rime_formation_rate_of_optional(temperature, humidity, wind_speed, wind_direction, aspect) ==
    IF ~temperature.some THEN Raise("TypeError")
    ELSE IF \/ RGt(temperature.v, R(RIME_TEMP_VIABLE_MAX))
            \/ RLt(temperature.v, R(RIME_TEMP_VIABLE_MIN))
    THEN Ok(Zero)
    ELSE IF ~humidity.some THEN Raise("TypeError")
    ELSE IF RLt(humidity.v, R(70)) THEN Ok(Zero)
    ELSE IF ~wind_speed.some THEN Raise("TypeError")
    ELSE IF ~wind_direction.some THEN Raise("TypeError")
    ELSE IF ~aspect.some THEN Raise("TypeError")
    ELSE Ok(calculate_rime_formation_rate(temperature.v, humidity.v,
                wind_speed.v, wind_direction.v, aspect.v))

\* calculate_verglas_formation_rate on Optional[float] arguments.  With
\* precipitation above 0 the humidity is never read.
verglas_formation_rate_of_optional(temperature, humidity, precipitation, aspect, hour_of_day) ==
    IF ~temperature.some THEN Raise("TypeError")
    ELSE IF RGt(temperature.v, R(4)) \/ RLt(temperature.v, R(-4))
    THEN Ok(Zero)
    ELSE IF ~precipitation.some THEN Raise("TypeError")
    ELSE IF RLe(precipitation.v, Zero) /\ ~humidity.some
    THEN Raise("TypeError")
    ELSE IF ~aspect.some
    THEN IF RLe(precipitation.v, Zero) /\ RLt(humidity.v, R(85))
         THEN Ok(Zero) ELSE Raise("TypeError")
    ELSE Ok(calculate_verglas_formation_rate(temperature.v,
                IF humidity.some THEN humidity.v ELSE Zero,
                precipitation.v, aspect.v, hour_of_day))

\* A weather sample whose fields may be None, an aspect and an hour.
InitOptional ==
    /\ pc = "call"
    /\ args \in [temperature : {NoneFloat, Some(R(-6)), Some(R(0)), Some(R(9))},
                 humidity : {NoneFloat, Some(R(50)), Some(R(90))},
                 wind_speed : {NoneFloat, Some(R(12))},
                 wind_direction : {NoneFloat, Some(R(270))},
                 precipitation : {NoneFloat, Some(R(0)), Some(R(3))},
                 aspect : {Some(R(0)), Some(R(90))},
                 hour_of_day : {None, Some(20)}]
    /\ ret = << >>
    /\ RunnerIdle
    /\ scoring_globals = ScoringGlobals

RimeRateOfOptional ==
    /\ pc = "call"
    /\ ret' = [fn |-> "calculate_rime_formation_rate",
               result |-> rime_formation_rate_of_optional(args.temperature,
                              args.humidity, args.wind_speed,
                              args.wind_direction, args.aspect)]
    /\ pc' = "return"
    /\ UNCHANGED args
    /\ RunnerUnchanged
    /\ UNCHANGED scoring_globals

VerglasRateOfOptional ==
    /\ pc = "call"
    /\ ret' = [fn |-> "calculate_verglas_formation_rate",
               result |-> verglas_formation_rate_of_optional(args.temperature,
                              args.humidity, args.precipitation, args.aspect,
                              args.hour_of_day)]
    /\ pc' = "return"
    /\ UNCHANGED args
    /\ RunnerUnchanged
    /\ UNCHANGED scoring_globals

NextOptional == RimeRateOfOptional \/ VerglasRateOfOptional

SpecOptional == InitOptional /\ [][NextOptional]_vars

\* C15: when any weather field passed to a rate function (temperature,
\* humidity, wind_speed, wind_direction for rime; temperature, humidity,
\* precipitation for verglas) is None, the function returns 0 and does not
\* raise.
C15_MissingFieldMeansNoFormation ==
    pc = "return" =>
      LET missing ==
              IF ret.fn = "calculate_rime_formation_rate"
              THEN \/ ~args.temperature.some \/ ~args.humidity.some
                   \/ ~args.wind_speed.some \/ ~args.wind_direction.some
              ELSE \/ ~args.temperature.some \/ ~args.humidity.some
                   \/ ~args.precipitation.some
      IN  missing => (ret.result.raised = "" /\ ret.result.value = Zero)

---------------------------------------------------------------------------
(* The angular difference inside calculate_rime_formation_rate (SpecRime). *)

\* C16: the angular difference of two bearings computed inside
\* calculate_rime_formation_rate, between the aspect and the windward
\* bearing, is in [0, 180] and equals d = |a - b| mod 360, 360 - d if
\* d > 180 else d, also for bearings below 0 or at or above 360.
C16_AngularDifferenceIsModular ==
    (pc = "return" /\ rime_gates_pass(args.temperature, args.humidity)) =>
      LET windward == windward_aspect(args.wind_direction)
          d == angle_diff(args.aspect, windward)
      IN  /\ RLe(Zero, d)
          /\ RLe(d, R(180))
          /\ d = AngularDifference(args.aspect, windward)

---------------------------------------------------------------------------
(* The mapping calculate_aspect_formation_rates returns (SpecAspects).     *)

\* The order in which the renderer walks the aspects.
COMPASS_ORDER == <<"N", "NE", "E", "SE", "S", "SW", "W", "NW">>

\* The bearing of each compass name.
BearingOf ==
    [N |-> 0, NE |-> 45, E |-> 90, SE |-> 135, S |-> 180, SW |-> 225,
     W |-> 270, NW |-> 315]

\* C17: calculate_aspect_formation_rates returns, under both "rime" and
\* "verglas", a mapping with exactly the 8 keys N, NE, E, SE, S, SW, W, NW
\* in the renderer's COMPASS_ORDER, each value computed with the bearing
\* bound to that name.
C17_AspectRatesKeyedByCompassOrder ==
    pc = "return" =>
      /\ Keys(ret.rime) = COMPASS_ORDER
      /\ Keys(ret.verglas) = COMPASS_ORDER
      /\ \A k \in 1..Len(COMPASS_ORDER) :
            LET bearing == R(BearingOf[COMPASS_ORDER[k]])
            IN  /\ ret.rime[k][2] =
                       calculate_rime_formation_rate(args.temperature,
                           args.humidity, args.wind_speed,
                           args.wind_direction, bearing)
                /\ ret.verglas[k][2] =
                       calculate_verglas_formation_rate(args.temperature,
                           args.humidity, args.precipitation, bearing,
                           args.hour_of_day)

\* A call in rime weather with rain has returned: the rates differ between
\* the aspects, E carries the rime maximum and N the verglas maximum.
C17_Witness ==
    /\ pc = "return"
    /\ args = [temperature |-> R(-2), humidity |-> R(90), wind_speed |-> R(12),
               wind_direction |-> R(270), precipitation |-> R(3),
               hour_of_day |-> None]
    /\ Get(ret.rime, "E") = Q(533, 1000)
    /\ Get(ret.rime, "W") = Q(53, 1000)
    /\ Get(ret.verglas, "N") = Q(667, 1000)
    /\ Get(ret.verglas, "S") = Q(1, 5)

---------------------------------------------------------------------------
(* The records main hands to create_timeseries_map (SpecRunner).           *)

\* A single number, as against a mapping or a list.
IsNumber(x) == DOMAIN x = {"n", "d"}

\* C18: every record main builds for create_timeseries_map has the shape
\* that function documents and its popup code reads: "rime" is a mapping
\* from the 8 aspects to rates, "verglas" is a single number, and "weather"
\* is the sample.
C18_RecordShapeOfRenderer ==
    \A m \in 1..Len(timeseries_data) :
        \A k \in 1..Len(timeseries_data[m][2].rates) :
            LET record == timeseries_data[m][2].rates[k]
            IN  /\ Keys(record.rime) = COMPASS_ORDER
                /\ \A j \in 1..Len(record.rime) : IsNumber(record.rime[j][2])
                /\ record.weather = locations[m].data[k]
                /\ IsNumber(record.verglas)

---------------------------------------------------------------------------
(* A sequence of scoring calls, each reading the module-level objects as   *)
(* the calls before it left them.                                          *)

MaxCalls == 3

\* The calls of a sequence: each rate function on two weather samples.
ScoringCalls ==
    [fn : {"calculate_rime_formation_rate", "calculate_verglas_formation_rate", "calculate_aspect_formation_rates"},
     temperature : {R(-2)}, humidity : {R(90), R(100)}, wind_speed : {R(12)},
     wind_direction : {R(270)}, precipitation : {R(3)}, aspect : {R(45)},
     hour_of_day : {Some(7)}]

\* The value of one call, given the module-level objects it finds.
scoring_call(c, globals) ==
    CASE c.fn = "calculate_rime_formation_rate" ->
             calculate_rime_formation_rate(c.temperature, c.humidity,
                 c.wind_speed, c.wind_direction, c.aspect)
      [] c.fn = "calculate_verglas_formation_rate" ->
             calculate_verglas_formation_rate(c.temperature, c.humidity,
                 c.precipitation, c.aspect, c.hour_of_day)
      [] c.fn = "calculate_aspect_formation_rates" ->
             aspect_formation_rates_over(globals.COMPASS_POINTS,
                 c.temperature, c.humidity, c.wind_speed, c.wind_direction,
                 c.precipitation, c.hour_of_day)

InitCalls ==
    /\ pc = "call"
    /\ args \in [1..MaxCalls -> ScoringCalls]
    /\ ret = << >>
    /\ RunnerIdle
    /\ scoring_globals = ScoringGlobals

\* The next call, were calculate_aspect_formation_rates to consume the
\* table it walks (removing its first item).
ScoringCallConsumesTable ==
    /\ pc = "call"
    /\ ret' = Append(ret, scoring_call(args[Len(ret) + 1], scoring_globals))
    /\ pc' = IF Len(ret') = Len(args) THEN "return" ELSE "call"
    /\ scoring_globals' =
           IF args[Len(ret) + 1].fn = "calculate_aspect_formation_rates"
           THEN [scoring_globals EXCEPT !.COMPASS_POINTS = Tail(@)]
           ELSE scoring_globals
    /\ UNCHANGED args
    /\ RunnerUnchanged

\* The next call of the sequence: the functions assign to no module-level
\* name and mutate neither the table nor their arguments.
ScoringCall ==
    /\ pc = "call"
    /\ ret' = Append(ret, scoring_call(args[Len(ret) + 1], scoring_globals))
    /\ pc' = IF Len(ret') = Len(args) THEN "return" ELSE "call"
    /\ UNCHANGED args
    /\ RunnerUnchanged
    /\ UNCHANGED scoring_globals

SpecCalls == InitCalls /\ [][ScoringCall]_vars

---------------------------------------------------------------------------
(* src/main.py and src/src/weather.py: the call of fetch_historical_weather *)
(* with keyword arguments.                                                 *)

\* The parameters of fetch_historical_weather; every one has a default.
FetchHistoricalWeatherParameters ==
    {"locations", "past_days", "forecast_days", "interval_hours", "max_retries", "retry_delay"}

\* Keyword names a caller may write, and the values passed under them.
KeywordNames == {"days", "past_days", "forecast_days", "interval_hours", "max_retries"}
KeywordValues == {1, 3, 7}

\* Python binds the keywords of a call to the parameters of the function:
\* a keyword that names no parameter is a TypeError raised before the body
\* runs.
bind(parameters, kwargs) ==
    IF DOMAIN kwargs \subseteq parameters THEN Ok(kwargs) ELSE Raise("TypeError")

\* The dict fetch_historical_weather returns when the locations of
\* `fetched` answered: "timestamps" of the first answer, and each
\* location with its altitude and data, in the order of FOCUS_AREAS.
historical_data(fetched) ==
    LET reading == CHOOSE r \in Readings : r.temperature = R(1)
        answered == SelectSeq(FOCUS_AREAS, LAMBDA area : area[1] \in fetched)
    IN  [timestamps |-> IF fetched = {} THEN << >> ELSE <<TimestampAt(1)>>,
         locations |->
             [k \in 1..Len(answered) |->
                 <<answered[k][1],
                   [altitude |-> answered[k][2],
                    data |-> <<Sample(reading, 1)>>]>>]]

\* One call fetch_historical_weather(**kwargs).
InitFetch ==
    /\ pc = "call"
    /\ args \in UNION {[names -> KeywordValues] : names \in SUBSET KeywordNames}
    /\ ret = << >>
    /\ RunnerIdle
    /\ scoring_globals = ScoringGlobals

\* The call raises at binding, or returns what the locations that answered
\* gave.
FetchHistoricalWeather ==
    /\ pc = "call"
    /\ LET bound == bind(FetchHistoricalWeatherParameters, args)
       IN  \/ /\ bound.raised # ""
              /\ ret' = bound
           \/ /\ bound.raised = ""
              /\ \E fetched \in SUBSET {"Carn Etchachan", "Ben Nevis"} :
                     ret' = Ok(historical_data(fetched))
    /\ pc' = "return"
    /\ UNCHANGED args
    /\ RunnerUnchanged
    /\ UNCHANGED scoring_globals

SpecFetch == InitFetch /\ [][FetchHistoricalWeather]_vars

\* The keywords main passes: days=7, interval_hours=3.
MainKeywords == [days |-> 7, interval_hours |-> 3]

\* C20: fetch_historical_weather accepts the arguments its docstring
\* documents and main passes (days, interval_hours): the call in main
\* returns the {"timestamps", "locations"} structure and does not fail
\* before any request is made.
C20_FetchAcceptsMainKeywords ==
    (pc = "return" /\ args = MainKeywords) =>
        /\ ret.raised = ""
        /\ DOMAIN ret.value = {"timestamps", "locations"}

---------------------------------------------------------------------------
(* src/src/weather.py: the responses of the provider and their parsing.    *)
(* A JSON object is a function from its keys; a JSON number or null is an  *)
(* optional rational.                                                      *)

MaxHours == 4

\* dict.get(key, default).
dict_get(d, key, default) == IF key \in DOMAIN d THEN d[key] ELSE default

\* The JSON object without keys.
EmptyDict == [key \in {} |-> None]

\* The k-th hour the provider reports, starting at midnight:
\* "2024-01-DDTHH:00".
HourlyTime(k) ==
    LET h == (k - 1) % 24
        day == 15 + (k - 1) \div 24
    IN  <<"2", "0", "2", "4", "-", "0", "1", "-",
          DIGITS[(day \div 10) + 1], DIGITS[(day % 10) + 1], "T",
          DIGITS[(h \div 10) + 1], DIGITS[(h % 10) + 1], ":", "0", "0">>

\* sum(vals) of a list of numbers.
RECURSIVE sum(_)
sum(vals) == IF vals = << >> THEN Zero ELSE RAdd(Head(vals).v, sum(Tail(vals)))

\* lst[start:end]: the elements at the indices start..end-1 that exist.
slice(lst, start, end) ==
    LET last == IF end < Len(lst) THEN end ELSE Len(lst)
    IN  IF start < last THEN SubSeq(lst, start + 1, last) ELSE << >>

\* safe_avg: the mean of the values of lst[start:end] that are not None,
\* and 0 when there is none.
safe_avg(lst, start, end) ==
    LET vals == SelectSeq(slice(lst, start, end), LAMBDA v : v.some)
    IN  IF vals # << >> THEN RDiv(sum(vals), R(Len(vals))) ELSE Zero

\* safe_val: lst[idx], and 0 when the index is past the end or the value
\* is None.
safe_val(lst, idx) ==
    IF idx < Len(lst) /\ lst[idx + 1].some THEN lst[idx + 1].v ELSE Zero

\* _parse_historical_response for interval_hours >= 1: one point for every
\* index of range(0, len(times), interval_hours).
_parse_historical_response(response, interval_hours) ==
    LET hourly == dict_get(response, "hourly", EmptyDict)
        times == dict_get(hourly, "time", << >>)
        temps == dict_get(hourly, "temperature_2m", << >>)
        humidity == dict_get(hourly, "relative_humidity_2m", << >>)
        wind_speed == dict_get(hourly, "wind_speed_10m", << >>)
        wind_dir == dict_get(hourly, "wind_direction_10m", << >>)
        precip == dict_get(hourly, "precipitation", << >>)
        cloud == dict_get(hourly, "cloud_cover", << >>)
        points == (Len(times) + interval_hours - 1) \div interval_hours
        index(k) == (k - 1) * interval_hours
        end_idx(k) == IF index(k) + interval_hours < Len(times) THEN index(k) + interval_hours ELSE Len(times)
    IN  [timestamps |-> [k \in 1..points |-> times[index(k) + 1]],
         weather_data |->
             [k \in 1..points |->
                 [temperature |-> safe_val(temps, index(k)),
                  humidity |-> safe_val(humidity, index(k)),
                  wind_speed |-> safe_val(wind_speed, index(k)),
                  wind_direction |-> safe_val(wind_dir, index(k)),
                  precipitation |-> RMul(safe_avg(precip, index(k), end_idx(k)), R(interval_hours)),
                  cloud_cover |-> safe_val(cloud, index(k)),
                  timestamp |-> times[index(k) + 1]]]]

\* _parse_weather_response when the clock reads `now`: the seven fields of
\* "current", None for a field that is missing.
_parse_weather_response(response, now) ==
    LET current == dict_get(response, "current", EmptyDict)
    IN  [temperature |-> dict_get(current, "temperature_2m", NoneFloat),
         humidity |-> dict_get(current, "relative_humidity_2m", NoneFloat),
         wind_speed |-> dict_get(current, "wind_speed_10m", NoneFloat),
         wind_direction |-> dict_get(current, "wind_direction_10m", NoneFloat),
         precipitation |-> dict_get(current, "precipitation", NoneFloat),
         cloud_cover |-> dict_get(current, "cloud_cover", NoneFloat),
         timestamp |-> dict_get(current, "time", now)]

---------------------------------------------------------------------------
(* src/src/weather.py: fetch_weather_data and fetch_historical_weather.    *)
(* Each loops over the locations and calls _fetch_location_weather or      *)
(* _fetch_location_historical, which retries requests.get up to            *)
(* max_retries times.  `network` records every requests.get with its       *)
(* outcome and every time.sleep, in the order they are made.               *)

MaxRetries == 2

\* An hourly answer of the provider for n hours: the given temperatures and
\* precipitation, and steady humidity, wind and cloud.
hourly_response(n, temps, precip) ==
    [hourly |->
        [time |-> [k \in 1..n |-> HourlyTime(k)],
         temperature_2m |-> temps,
         relative_humidity_2m |-> [k \in 1..n |-> Some(R(95))],
         wind_speed_10m |-> [k \in 1..n |-> Some(R(5))],
         wind_direction_10m |-> [k \in 1..n |-> Some(R(180))],
         precipitation |-> precip,
         cloud_cover |-> [k \in 1..n |-> Some(R(100))]]]

\* Answers to the hourly request: an object without "hourly", one hour,
\* and MaxHours hours.
HistoricalResponses ==
    {EmptyDict} \cup
    { hourly_response(n, [k \in 1..n |-> Some(R(1))], [k \in 1..n |-> Some(R(1))]) :
        n \in {1, MaxHours} }

\* Answers to the request for current weather: an object without "current",
\* and a full reading.
CurrentResponses ==
    { EmptyDict,
      [current |->
          [temperature_2m |-> Some(R(-2)), relative_humidity_2m |-> Some(R(95)),
           wind_speed_10m |-> Some(R(20)), wind_direction_10m |-> Some(R(0)),
           precipitation |-> Some(Zero), cloud_cover |-> Some(R(40)),
           time |-> HourlyTime(1)]] }

Responses(fn) ==
    IF fn = "fetch_weather_data" THEN CurrentResponses ELSE HistoricalResponses

\* What _fetch_location_weather (of fetch_weather_data) and
\* _fetch_location_historical (of fetch_historical_weather) return for a
\* response that passed raise_for_status.
parse(fn, response, interval_hours) ==
    IF fn = "fetch_weather_data"
    THEN _parse_weather_response(response, HourlyTime(1))
    ELSE _parse_historical_response(response, interval_hours)

\* `if data:` -- None is false, and a dict is true when it has a key.
bool(x) == x.some /\ DOMAIN x.v # {}

\* One call of fetch_weather_data or fetch_historical_weather on the first
\* locations of config.FOCUS_AREAS.
InitWeather ==
    /\ pc = "for_location"
    /\ \E fn \in {"fetch_weather_data", "fetch_historical_weather"} :
         /\ \E max_retries \in 0..MaxRetries, interval_hours \in {1, 3} :
              args = [fn |-> fn, max_retries |-> max_retries,
                      retry_delay |-> One, interval_hours |-> interval_hours]
         /\ result = IF fn = "fetch_weather_data" THEN << >>
                     ELSE [timestamps |-> << >>, locations |-> << >>]
    /\ \E n \in 1..MaxLocations : locations = SubSeq(FOCUS_AREAS, 1, n)
    /\ loc = 0
    /\ attempt = 0
    /\ network = << >>
    /\ data = None
    /\ ret = << >>
    /\ i = 0
    /\ location_rates = << >>
    /\ timeseries_data = << >>
    /\ scoring_globals = ScoringGlobals

name == locations[loc][1]

\* for name, loc in locations.items(): the fetch of the next location
\* starts with `for attempt in range(max_retries)`.
FetchLocation ==
    /\ pc = "for_location"
    /\ loc < Len(locations)
    /\ loc' = loc + 1
    /\ attempt' = 0
    /\ pc' = "for_attempt"
    /\ UNCHANGED <<args, ret, locations, i, location_rates, timeseries_data, scoring_globals, network, data, result>>

\* A successful request that goes on with the loop instead of returning.
RequestSucceedsAndGoesOn ==
    /\ pc = "for_attempt"
    /\ attempt < args.max_retries
    /\ \E response \in Responses(args.fn) :
         /\ network' = Append(network, [call |-> "get", name |-> name, attempt |-> attempt,
                                        ok |-> TRUE, response |-> response])
         /\ data' = Some(parse(args.fn, response, args.interval_hours))
    /\ attempt' = attempt + 1
    /\ pc' = IF attempt + 1 < args.max_retries THEN "for_attempt" ELSE "returned"
    /\ UNCHANGED <<args, ret, locations, loc, i, location_rates, timeseries_data, scoring_globals, result>>

\* requests.get answers and raise_for_status passes: the parsed response is
\* returned.
RequestSucceeds ==
    /\ pc = "for_attempt"
    /\ attempt < args.max_retries
    /\ \E response \in Responses(args.fn) :
         /\ network' = Append(network, [call |-> "get", name |-> name, attempt |-> attempt,
                                        ok |-> TRUE, response |-> response])
         /\ data' = Some(parse(args.fn, response, args.interval_hours))
    /\ pc' = "returned"
    /\ UNCHANGED <<args, ret, locations, loc, attempt, i, location_rates, timeseries_data, scoring_globals, result>>

\* The handler sleeping after every failed attempt.
RequestFailsAndAlwaysSleeps ==
    /\ pc = "for_attempt"
    /\ attempt < args.max_retries
    /\ network' = network \o
           << [call |-> "get", name |-> name, attempt |-> attempt, ok |-> FALSE],
              [call |-> "sleep", name |-> name, attempt |-> attempt, delay |-> args.retry_delay] >>
    /\ attempt' = attempt + 1
    /\ UNCHANGED <<pc, args, ret, locations, loc, i, location_rates, timeseries_data, scoring_globals, data, result>>

\* requests.get or raise_for_status raises RequestException: the handler
\* sleeps retry_delay if another attempt follows, and the loop goes on.
RequestFails ==
    /\ pc = "for_attempt"
    /\ attempt < args.max_retries
    /\ network' = network \o
           << [call |-> "get", name |-> name, attempt |-> attempt, ok |-> FALSE] >> \o
           ( IF attempt < args.max_retries - 1
             THEN << [call |-> "sleep", name |-> name, attempt |-> attempt, delay |-> args.retry_delay] >>
             ELSE << >> )
    /\ attempt' = attempt + 1
    /\ UNCHANGED <<pc, args, ret, locations, loc, i, location_rates, timeseries_data, scoring_globals, data, result>>

\* range(max_retries) is exhausted: None is returned.
RetriesExhausted ==
    /\ pc = "for_attempt"
    /\ attempt >= args.max_retries
    /\ data' = None
    /\ pc' = "returned"
    /\ UNCHANGED <<args, ret, locations, loc, attempt, i, location_rates, timeseries_data, scoring_globals, network, result>>

\* The loop over the locations ending at the first location that gave
\* nothing.
StoreDataOrGiveUp ==
    /\ pc = "returned"
    /\ result' =
           IF ~bool(data) THEN result
           ELSE IF args.fn = "fetch_weather_data"
           THEN Append(result, <<name, data.v>>)
           ELSE [timestamps |-> IF result.timestamps = << >> THEN data.v.timestamps ELSE result.timestamps,
                 locations |-> Append(result.locations,
                                      <<name, [altitude |-> locations[loc][2],
                                               data |-> data.v.weather_data]>>)]
    /\ loc' = IF bool(data) THEN loc ELSE Len(locations)
    /\ pc' = "for_location"
    /\ UNCHANGED <<args, ret, locations, attempt, i, location_rates, timeseries_data, scoring_globals, network, data>>

\* `if data:` -- what the location gave is stored under its name;
\* fetch_historical_weather also takes the timestamps while it has none.
StoreData ==
    /\ pc = "returned"
    /\ result' =
           IF ~bool(data) THEN result
           ELSE IF args.fn = "fetch_weather_data"
           THEN Append(result, <<name, data.v>>)
           ELSE [timestamps |-> IF result.timestamps = << >> THEN data.v.timestamps ELSE result.timestamps,
                 locations |-> Append(result.locations,
                                      <<name, [altitude |-> locations[loc][2],
                                               data |-> data.v.weather_data]>>)]
    /\ pc' = "for_location"
    /\ UNCHANGED <<args, ret, locations, loc, attempt, i, location_rates, timeseries_data, scoring_globals, network, data>>

\* Every location was tried: the dict is returned.
ReturnResult ==
    /\ pc = "for_location"
    /\ loc = Len(locations)
    /\ ret' = result
    /\ pc' = "return"
    /\ UNCHANGED <<args, locations, loc, attempt, i, location_rates, timeseries_data, scoring_globals, network, data, result>>

NextWeather ==
    FetchLocation \/ RequestSucceeds \/ RequestFails \/ RetriesExhausted \/ StoreData \/ ReturnResult

SpecWeather == InitWeather /\ [][NextWeather]_vars

---------------------------------------------------------------------------
(* Properties of the retry loops and of the loops over the locations       *)
(* (SpecWeather).                                                          *)

\* The requests.get calls made for the l-th location, in order.
gets(l) ==
    SelectSeq(network, LAMBDA e : e.call = "get" /\ e.name = locations[l][1])

\* The time.sleep calls made for the l-th location, in order.
sleeps(l) ==
    SelectSeq(network, LAMBDA e : e.call = "sleep" /\ e.name = locations[l][1])

\* C21: for one location the requests are made one after another and stop
\* at the first success: when attempt k is the first to succeed, exactly k
\* requests were made and the parsed response is returned; when all fail,
\* exactly max_retries requests were made and None is returned; with
\* max_retries = 0 no request is made and None is returned.  No call is
\* made for a location after a request for it succeeded.
C21_RequestsStopAtFirstSuccess ==
    /\ \A j \in 1..Len(network) :
         (network[j].call = "get" /\ network[j].ok) =>
             \A later \in (j + 1)..Len(network) : network[later].name # network[j].name
    /\ pc = "returned" =>
         LET g == gets(loc)
         IN  /\ \A k \in 1..Len(g) : g[k].attempt = k - 1
             /\ IF data.some
                THEN /\ Len(g) \in 1..args.max_retries
                     /\ \A k \in 1..(Len(g) - 1) : ~g[k].ok
                     /\ g[Len(g)].ok
                     /\ data.v = parse(args.fn, g[Len(g)].response, args.interval_hours)
                ELSE /\ Len(g) = args.max_retries
                     /\ \A k \in 1..Len(g) : ~g[k].ok
             /\ args.max_retries = 0 => (g = << >> /\ ~data.some)

\* The second attempt for a location succeeded after the first failed.
C21_Witness ==
    /\ pc = "returned"
    /\ data.some
    /\ Len(gets(loc)) = 2
    /\ ~gets(loc)[1].ok

\* min(a, b) of two integers.
Min(a, b) == IF a < b THEN a ELSE b

\* The failed requests among those made for the l-th location.
failures(l) == SelectSeq(gets(l), LAMBDA e : ~e.ok)

\* The call that follows the j-th call of `network` for the same location,
\* if there is one.
FollowedBySleep(j) ==
    /\ j < Len(network)
    /\ network[j + 1].call = "sleep"
    /\ network[j + 1].name = network[j].name

\* C22: a wait of retry_delay happens only between a failed attempt and
\* the next attempt: every sleep directly follows a failed request of the
\* same location and lasts retry_delay, every failed attempt except the
\* last of range(max_retries) is followed by one sleep, and no sleep
\* follows the final attempt or a successful one; a location that went
\* through f failures before success or exhaustion saw
\* min(f, max(max_retries - 1, 0)) sleeps.
C22_SleepOnlyBetweenAttempts ==
    /\ \A j \in 1..Len(network) :
         /\ network[j].call = "sleep" =>
              /\ j > 1
              /\ network[j - 1].call = "get"
              /\ ~network[j - 1].ok
              /\ network[j - 1].name = network[j].name
              /\ network[j].delay = args.retry_delay
         /\ network[j].call = "get" =>
              IF ~network[j].ok /\ network[j].attempt < args.max_retries - 1
              THEN FollowedBySleep(j)
              ELSE ~FollowedBySleep(j)
    /\ pc = "returned" =>
         Len(sleeps(loc)) =
             Min(Len(failures(loc)), IF args.max_retries > 0 THEN args.max_retries - 1 ELSE 0)

\* Every attempt for a location failed: one sleep fewer than attempts.
C22_Witness ==
    /\ pc = "returned"
    /\ ~data.some
    /\ Len(failures(loc)) = 2
    /\ Len(sleeps(loc)) = 1

\* C22 as stated: a location that went through f failures saw
\* min(f, max_retries - 1) sleeps.
C22_SleepCountAsStated ==
    pc = "returned" =>
        Len(sleeps(loc)) = Min(Len(failures(loc)), args.max_retries - 1)

\* Whether a request for the location `area` of FOCUS_AREAS succeeded.
Succeeded(area) ==
    \E j \in 1..Len(network) :
        network[j].call = "get" /\ network[j].ok /\ network[j].name = area[1]

\* The position of a location's name in `locations`.
IndexOf(n) == CHOOSE l \in 1..Len(locations) : locations[l][1] = n

\* The entries of the returned dict, in dict order.
Stored == IF args.fn = "fetch_weather_data" THEN ret ELSE ret.locations

\* C23: fetch_weather_data and fetch_historical_weather try every location
\* in order whatever the earlier outcomes were: the calls are grouped by
\* location in the order of `locations`, every location is requested (when
\* max_retries >= 1), and the returned dict holds exactly the locations
\* whose fetch succeeded, in that order, each with what its response
\* parsed to.
C23_EveryLocationTriedAndOnlySuccessesKept ==
    /\ \A j \in 1..Len(network) : \A later \in (j + 1)..Len(network) :
         IndexOf(network[j].name) <= IndexOf(network[later].name)
    /\ pc = "return" =>
         LET succeeded == SelectSeq(locations, Succeeded)
         IN  /\ loc = Len(locations)
             /\ \A l \in 1..Len(locations) : args.max_retries > 0 => gets(l) # << >>
             /\ Len(Stored) = Len(succeeded)
             /\ \A k \in 1..Len(Stored) :
                  LET l == IndexOf(succeeded[k][1])
                      parsed == parse(args.fn, gets(l)[Len(gets(l))].response, args.interval_hours)
                  IN  /\ Stored[k][1] = succeeded[k][1]
                      /\ IF args.fn = "fetch_weather_data"
                         THEN Stored[k][2] = parsed
                         ELSE Stored[k][2] = [altitude |-> succeeded[k][2],
                                              data |-> parsed.weather_data]

\* The first location exhausted its retries and the second one is the only
\* entry returned.
C23_Witness ==
    /\ pc = "return"
    /\ Len(locations) = 2
    /\ Len(failures(1)) = 2
    /\ ~Succeeded(locations[1])
    /\ Len(Stored) = 1
    /\ Stored[1][1] = "Ben Nevis"

\* C30: in the structure fetch_historical_weather returns, every
\* location's series has the same length as "timestamps", so every index
\* of 0..len(timestamps)-1 the slider can take selects a record of every
\* location.
C30_SeriesAsLongAsTimestamps ==
    (pc = "return" /\ args.fn = "fetch_historical_weather") =>
        \A k \in 1..Len(ret.locations) :
            Len(ret.locations[k][2].data) = Len(ret.timestamps)

---------------------------------------------------------------------------
(* The pipeline from one hourly answer of the provider to the records of   *)
(* main: _parse_historical_response resamples the answer, and the loop of  *)
(* main turns every resampled point into a record.                         *)

\* Hourly answers of at most MaxHours hours: a temperature is null or -2,
\* an hourly precipitation is null, 1 or 3 mm.
PipelineResponses ==
    UNION { { hourly_response(n, temps, precip) :
                temps \in [1..n -> {NoneFloat, Some(R(-2))}],
                precip \in [1..n -> {NoneFloat, Some(One), Some(R(3))}] } :
            n \in 0..MaxHours }

\* The answer for the first location of config.FOCUS_AREAS has arrived.
InitPipeline ==
    /\ pc = "parse"
    /\ \E response \in PipelineResponses, interval_hours \in 1..3 :
         args = [response |-> response, interval_hours |-> interval_hours]
    /\ ret = << >>
    /\ RunnerIdle
    /\ scoring_globals = ScoringGlobals

\* _fetch_location_historical returns the parsed answer,
\* fetch_historical_weather stores it under the location's name, and main
\* finds it in historical_data["locations"].
ParseHistoricalResponse ==
    /\ pc = "parse"
    /\ LET parsed == _parse_historical_response(args.response, args.interval_hours)
       IN  /\ ret' = parsed
           /\ locations' = << [name |-> FOCUS_AREAS[1][1],
                               altitude |-> FOCUS_AREAS[1][2],
                               data |-> parsed.weather_data] >>
    /\ pc' = "for_location"
    /\ UNCHANGED <<args, loc, i, location_rates, timeseries_data, scoring_globals, attempt, network, data, result>>

NextPipeline == ParseHistoricalResponse \/ NextRunner

SpecPipeline == InitPipeline /\ [][NextPipeline]_vars

\* The hourly precipitation values of the answer that are not null, within
\* the interval of the k-th resampled point.
HourlyPrecipitation(k) ==
    LET precip == args.response.hourly.precipitation
        start == (k - 1) * args.interval_hours
    IN  SelectSeq(slice(precip, start, start + args.interval_hours), LAMBDA v : v.some)

\* C24: the precipitation of each resampled point equals the sum of the
\* hourly precipitation values in its interval [i, min(i + interval_hours,
\* n)), also for a final interval shorter than interval_hours and for
\* intervals with null values.
C24_PrecipitationIsIntervalSum ==
    pc # "parse" =>
        \A k \in 1..Len(ret.weather_data) :
            ret.weather_data[k].precipitation = sum(HourlyPrecipitation(k))

\* Whether every aspect of a record has rime rate 0 and verglas rate 0.
NoFormation(record) ==
    /\ \A k \in 1..Len(record.rime) : record.rime[k][2] = Zero
    /\ \A k \in 1..Len(record.verglas) : record.verglas[k][2] = Zero

\* C25: when the hourly temperature of a sampled hour is null, the record
\* the pipeline emits for that timestamp has rime rate 0 and verglas rate 0
\* for all 8 aspects, whatever the other fields are.
C25_NullTemperatureMeansNoFormation ==
    \A k \in 1..Len(location_rates) :
        ~args.response.hourly.temperature_2m[(k - 1) * args.interval_hours + 1].some =>
            NoFormation(location_rates[k])

---------------------------------------------------------------------------
(* src/src/scoring.py: calculate_verglas_risk and its sub-scores.          *)

\* Score temperature for verglas formation (0-35 points).
_score_verglas_temperature(temp) ==
    LET distance == RAbs(RSub(temp, R(VERGLAS_TEMP_CENTER)))
    IN  IF RGt(distance, R(VERGLAS_TEMP_RANGE * 2)) THEN Zero
        ELSE IF RLe(distance, R(VERGLAS_TEMP_RANGE)) THEN R(35)
        ELSE LET excess == RSub(distance, R(VERGLAS_TEMP_RANGE))
             IN  RMul(R(35), RSub(One, RDiv(excess, R(VERGLAS_TEMP_RANGE))))

\* Score recent precipitation (0-30 points).
_score_precipitation(precip) ==
    IF RLe(precip, Zero) THEN Zero ELSE RMin(R(30), RMul(precip, R(6)))

\* Score aspect for shade/ice retention (0-10 points).
_score_shaded_aspect(aspect) ==
    LET shaded_center == Zero
        d == RAbs(RSub(aspect, shaded_center))
        diff == IF RGt(d, R(180)) THEN RSub(R(360), d) ELSE d
    IN  RMax(Zero, RMul(R(10), RSub(One, RDiv(diff, R(90)))))

\* Score time of day for cooling risk (0-10 points).
_score_time_of_day(h) ==
    IF (18 <= h /\ h <= 23) \/ (0 <= h /\ h <= 6) THEN R(10)
    ELSE IF 7 <= h /\ h <= 9 THEN R(5)
    ELSE R(2)

\* Verglas formation risk: the dict with "score", "level" and "factors".
calculate_verglas_risk(temperature, humidity, precipitation, aspect, hour_of_day) ==
    LET factors ==
            [temperature |-> _score_verglas_temperature(temperature),
             precipitation |-> _score_precipitation(precipitation),
             humidity |-> RMin(R(15), RMul(RDiv(humidity, R(100)), R(15))),
             aspect |-> IF aspect.some THEN _score_shaded_aspect(aspect.v) ELSE R(5),
             time |-> IF hour_of_day.some THEN _score_time_of_day(hour_of_day.v) ELSE R(5)]
        total == RAdd(RAdd(RAdd(RAdd(factors.temperature, factors.precipitation),
                     factors.humidity), factors.aspect), factors.time)
        total_score == RMax(Zero, RMin(R(100), total))
    IN  [score |-> Round1(total_score),
         level |-> _get_risk_level(total_score),
         factors |-> factors]

\* One call of calculate_verglas_risk.
InitVerglasRisk ==
    /\ pc = "call"
    /\ args \in [temperature : {R(-5), R(-3), Zero, Q(5, 2), R(4), R(10)},
                 humidity : Humidities \cup {Q(399, 5)},
                 precipitation : Precipitations,
                 aspect : OptionalAspects,
                 hour_of_day : Hours]
    /\ ret = << >>
    /\ RunnerIdle
    /\ scoring_globals = ScoringGlobals

VerglasRisk ==
    /\ pc = "call"
    /\ ret' = calculate_verglas_risk(args.temperature, args.humidity,
                  args.precipitation, args.aspect, args.hour_of_day)
    /\ pc' = "return"
    /\ UNCHANGED args
    /\ RunnerUnchanged
    /\ UNCHANGED scoring_globals

SpecVerglasRisk == InitVerglasRisk /\ [][VerglasRisk]_vars

\* C28: for every numeric input to calculate_verglas_risk, with aspect and
\* hour_of_day supplied or omitted, each sub-score stays within the budget
\* its comment states (0 <= temperature <= 35, precipitation <= 30,
\* humidity <= 15, aspect <= 10, time <= 10), so the sum of the factors is
\* in [0, 100] before the final clamp.
C28_VerglasRiskFactorsWithinBudget ==
    pc = "return" =>
        LET f == ret.factors
            total == RAdd(RAdd(RAdd(RAdd(f.temperature, f.precipitation),
                         f.humidity), f.aspect), f.time)
        IN  /\ RLe(Zero, f.temperature) /\ RLe(f.temperature, R(35))
            /\ RLe(f.precipitation, R(30))
            /\ RLe(f.humidity, R(15))
            /\ RLe(f.aspect, R(10))
            /\ RLe(f.time, R(10))
            /\ RLe(Zero, total) /\ RLe(total, R(100))

\* C29: in every result of calculate_verglas_risk the "level" equals
\* _get_risk_level of the returned "score" (the value rounded to one
\* decimal): no result reports a score at or above a threshold (25, 50,
\* 75) together with the level below it.
C29_LevelMatchesReturnedScore ==
    pc = "return" => ret.level = _get_risk_level(ret.score)

---------------------------------------------------------------------------
(* Properties of calculate_verglas_formation_rate (SpecVerglas,            *)
(* SpecAspects).                                                           *)

\* C26: calculate_verglas_formation_rate returns 0 whenever temperature is
\* above 4 or below -4, and whenever precipitation <= 0 and humidity < 85;
\* it returns a value greater than 0 only if |temperature| < 4 and
\* (precipitation > 0 or humidity > 85).
C26_VerglasGates ==
    pc = "return" =>
        /\ (RGt(args.temperature, R(4)) \/ RLt(args.temperature, R(-4))) => ret = Zero
        /\ (RLe(args.precipitation, Zero) /\ RLt(args.humidity, R(85))) => ret = Zero
        /\ RGt(ret, Zero) =>
             /\ RLt(RAbs(args.temperature), R(4))
             /\ RGt(args.precipitation, Zero) \/ RGt(args.humidity, R(85))

\* A call at 3.5 degrees without precipitation and with humidity 90 % has
\* returned a rate above 0; the same call at 4 degrees would return 0.
C26_Witness ==
    /\ pc = "return"
    /\ args = [temperature |-> Q(7, 2), humidity |-> R(90),
               precipitation |-> Zero, aspect |-> Zero, hour_of_day |-> None]
    /\ ret = Q(56, 1000)
    /\ calculate_verglas_formation_rate(R(4), args.humidity, args.precipitation, args.aspect, args.hour_of_day) = Zero

\* C27: for any fixed temperature, humidity, precipitation and hour_of_day
\* the verglas rate is fastest on the north aspect and symmetric east/west:
\* rate(N) >= rate(NE) = rate(NW) >= rate(E) = rate(SE) = rate(S) =
\* rate(SW) = rate(W).
C27_VerglasFastestOnNorth ==
    pc = "return" =>
        LET rate(aspect) == Get(ret.verglas, aspect)
        IN  /\ RGe(rate("N"), rate("NE"))
            /\ rate("NE") = rate("NW")
            /\ RGe(rate("NW"), rate("E"))
            /\ \A aspect \in {"SE", "S", "SW", "W"} : rate(aspect) = rate("E")

\* A call at 0 degrees in rain has returned: 1 on N, 0.667 on NE and NW and
\* 0.3 on the five other aspects.
C27_Witness ==
    /\ pc = "return"
    /\ args.temperature = Zero
    /\ args.precipitation = R(3)
    /\ args.hour_of_day = None
    /\ Get(ret.verglas, "N") = One
    /\ Get(ret.verglas, "NE") = Q(667, 1000)
    /\ Get(ret.verglas, "NW") = Q(667, 1000)
    /\ Get(ret.verglas, "W") = Q(3, 10)

=============================================================================
